---- MODULE Spec2Model ----
(***************************************************************************)
(* Model of the reusable core of the course recommender:                   *)
(*   - SimpleCache        (src/ai_course_recommender.py, lines 140-185)    *)
(*   - GeminiAPIClient    (src/ai_course_recommender.py, lines 80-135)     *)
(*   - ProfessionalAIClient (src/pro_int_courses.py, lines 58-87)          *)
(* Python strings that the code inspects character by character are        *)
(* sequences of one-character strings; opaque strings (credentials,        *)
(* response texts, error messages) are TLA+ strings.                       *)
(***************************************************************************)
EXTENDS Integers, Sequences, FiniteSets, TLC

\* ------------------------------------------------------------------------
\* Bounds of the model
\* ------------------------------------------------------------------------
MaxSize == 2
MaxOrderLen == 4
MaxKeys == 2
MaxRetries == 3
MaxLog == 6
MaxSaves == 4

\* ------------------------------------------------------------------------
\* State
\* ------------------------------------------------------------------------
VARIABLES
    max_size,           \* SimpleCache.max_size
    cache,              \* SimpleCache.cache: fingerprint -> list of courses
    access_order,       \* SimpleCache.access_order: list of fingerprints
    use_order,          \* history: cached fingerprints by most recent use, oldest first
    cache_last,         \* the last SimpleCache call: operation, fingerprint, result
    stored,             \* history: what the last completed set of each cached fingerprint passed

    cls,                \* which client class the client object is
    api_keys,           \* client.api_keys
    current_key_index,  \* client.current_key_index
    max_retries,        \* client.max_retries
    retry_delay,        \* client.retry_delay
    request_count,      \* GeminiAPIClient.request_count
    error_count,        \* GeminiAPIClient.error_count
    pc,                 \* position of the running generate_content call
    attempt,            \* loop variable of generate_content
    last_error,         \* local last_error of generate_content
    outcome,            \* how the last generate_content call ended
    key_log,            \* history: every credential _get_next_api_key has returned
    entry,              \* history: counters and index when the current call started
    attempts,           \* history: the attempts of the current call
    pauses,             \* history: number of time.sleep calls of the current call
    stats,              \* the dict the last get_stats call returned

    fp,                 \* two queries and the fingerprints _generate_key gives them
    rec,                \* the running or last recommend_courses call
    threads,            \* two threads, each in one call of _get_next_api_key
    duo,                \* a ProfessionalAIClient run beside the client, and the
                        \* transport's pattern for the call both are making
    procall,            \* the running or last call of generate_roadmap or
                        \* recommend_courses of ProfessionalAIClient
    store               \* courses.json of a CourseDataStore, with the history of
                        \* its save_course calls and its last get_courses result

cacheVars == <<max_size, cache, access_order, use_order, cache_last, stored>>
clientVars == <<cls, api_keys, current_key_index, max_retries, retry_delay,
                request_count, error_count, pc, attempt, last_error, outcome,
                key_log, entry, attempts, pauses, stats>>
sideVars == <<threads, duo, procall, store>>
vars == <<cacheVars, clientVars, fp, rec, sideVars>>

\* what a call on the cache, and a call on the client, leave alone
cacheFrame == <<clientVars, fp, rec, sideVars>>
clientFrame == <<cacheVars, fp, rec, sideVars>>

\* ------------------------------------------------------------------------
\* Generic helpers
\* ------------------------------------------------------------------------
Range(s) == {s[i] : i \in 1..Len(s)}

Count(s, x) == Cardinality({i \in 1..Len(s) : s[i] = x})

\* list.remove(x): delete the first occurrence of x
RemoveFirst(s, x) ==
    LET i == CHOOSE j \in 1..Len(s) : s[j] = x /\ \A k \in 1..(j - 1) : s[k] # x
    IN  SubSeq(s, 1, i - 1) \o SubSeq(s, i + 1, Len(s))

\* the elements of s that are in set S, in order
Filter(s, S) == SelectSeq(s, LAMBDA x : x \in S)

\* ------------------------------------------------------------------------
\* Python str.lower() and str.strip() on sequences of characters
\* ------------------------------------------------------------------------
LowerChar(ch) ==
    CASE ch = "A" -> "a"
      [] ch = "B" -> "b"
      [] ch = "C" -> "c"
      [] ch = "M" -> "m"
      [] OTHER -> ch

Lower(s) == [i \in 1..Len(s) |-> LowerChar(s[i])]

IsSpace(ch) == ch = " "

RECURSIVE LStrip(_)
LStrip(s) == IF s # <<>> /\ IsSpace(Head(s)) THEN LStrip(Tail(s)) ELSE s

RECURSIVE RStrip(_)
RStrip(s) ==
    IF s # <<>> /\ IsSpace(s[Len(s)]) THEN RStrip(SubSeq(s, 1, Len(s) - 1)) ELSE s

StripLeftOnly(s) == LStrip(s)

Strip(s) == RStrip(LStrip(s))

\* an optional str argument: None, or a string
NoneStr == [none |-> TRUE, s |-> <<>>]
Str(s) == [none |-> FALSE, s |-> s]

\* the expression `x or ""`
OrEmpty(x) == IF x.none \/ x.s = <<>> THEN <<>> ELSE x.s

\* SimpleCache._generate_key
GenerateKey(interests, skills, goals) ==
    Strip(Lower(interests)) \o <<"_">> \o Strip(Lower(skills)) \o <<"_">>
        \o Strip(Lower(goals))

\* ------------------------------------------------------------------------
\* SimpleCache
\* ------------------------------------------------------------------------
\* inputs of the cache calls
InterestInputs == {<<"a">>, <<"A", " ">>, <<"b">>, <<" ", "C">>}
SkillInputs == {NoneStr, Str(<<>>)}
GoalInputs == {NoneStr}
CourseLists == {<<"c1">>, <<"c2">>}

EmptyDict == [k \in {} |-> <<>>]

\* dict item assignment and deletion
DictPut(c, k, v) == [x \in (DOMAIN c) \cup {k} |-> IF x = k THEN v ELSE c[x]]
DictDel(c, k) == [x \in (DOMAIN c) \ {k} |-> c[x]]

\* return values of get: None or a list of courses
RetNone == [isNone |-> TRUE, val |-> <<>>]
RetVal(v) == [isNone |-> FALSE, val |-> v]

\* `len(self.cache) >= self.max_size`
IsFullEvictsLate(c, m) == Cardinality(DOMAIN c) > m

IsFull(c, m) == Cardinality(DOMAIN c) >= m

\* `oldest_key = self.access_order.pop(0); del self.cache[oldest_key]`
Evict(c, o) ==
    IF o = <<>>
    THEN [cache |-> c, access_order |-> o, exc |-> "IndexError"]
    ELSE IF Head(o) \notin DOMAIN c
    THEN [cache |-> c, access_order |-> Tail(o), exc |-> "KeyError"]
    ELSE [cache |-> DictDel(c, Head(o)), access_order |-> Tail(o), exc |-> "none"]

\* `self.cache[key] = courses; self.access_order.append(key)`
Store(c, o, key, courses) ==
    [cache |-> DictPut(c, key, courses), access_order |-> Append(o, key),
     exc |-> "none"]

\* the body of SimpleCache.set after the key is computed
SetResult(c, o, m, key, courses) ==
    LET e == IF IsFull(c, m) THEN Evict(c, o)
             ELSE [cache |-> c, access_order |-> o, exc |-> "none"]
    IN  IF e.exc # "none" THEN e ELSE Store(e.cache, e.access_order, key, courses)

\* the body of SimpleCache.get after the key is computed
GetResultNoTouch(c, o, key) ==
    IF key \in DOMAIN c
    THEN [access_order |-> o, ret |-> RetVal(c[key]), exc |-> "none"]
    ELSE [access_order |-> o, ret |-> RetNone, exc |-> "none"]

GetResult(c, o, key) ==
    IF key \in DOMAIN c
    THEN IF key \in Range(o)
         THEN [access_order |-> Append(RemoveFirst(o, key), key),
               ret |-> RetVal(c[key]), exc |-> "none"]
         ELSE [access_order |-> o, ret |-> RetNone, exc |-> "ValueError"]
    ELSE [access_order |-> o, ret |-> RetNone, exc |-> "none"]

CacheInit ==
    /\ max_size \in 1..MaxSize
    /\ cache = EmptyDict
    /\ access_order = <<>>
    /\ use_order = <<>>
    /\ cache_last = [op |-> "init", key |-> <<>>, arg |-> <<>>, ret |-> RetNone,
                     exc |-> "none"]
    /\ stored = EmptyDict

CacheGet(interests, skills, goals) ==
    LET key == GenerateKey(interests, OrEmpty(skills), OrEmpty(goals))
        r == GetResult(cache, access_order, key)
    IN  /\ access_order' = r.access_order
        /\ use_order' = IF key \in DOMAIN cache /\ r.exc = "none"
                        THEN Append(Filter(use_order, (DOMAIN cache) \ {key}), key)
                        ELSE use_order
        /\ cache_last' = [op |-> "get", key |-> key, arg |-> <<>>, ret |-> r.ret,
                          exc |-> r.exc]
        /\ UNCHANGED <<max_size, cache, stored>>

CacheSet(interests, skills, goals, courses) ==
    LET key == GenerateKey(interests, OrEmpty(skills), OrEmpty(goals))
        r == SetResult(cache, access_order, max_size, key, courses)
    IN  /\ IsFull(cache, max_size) \/ Len(access_order) < MaxOrderLen
        /\ cache' = r.cache
        /\ access_order' = r.access_order
        /\ use_order' = IF r.exc = "none"
                        THEN Append(Filter(use_order, (DOMAIN r.cache) \ {key}), key)
                        ELSE Filter(use_order, DOMAIN r.cache)
        /\ cache_last' = [op |-> "set", key |-> key, arg |-> courses, ret |-> RetNone,
                          exc |-> r.exc]
        /\ stored' = [k \in DOMAIN r.cache |->
                         IF k = key /\ r.exc = "none" THEN courses ELSE stored[k]]
        /\ UNCHANGED max_size

\* dict.clear() and list.clear()
ClearDict(c) == EmptyDict
ClearListButLast(o) == IF o = <<>> THEN o ELSE <<o[Len(o)]>>

ClearList(o) == <<>>

CacheClear ==
    /\ cache' = ClearDict(cache)
    /\ access_order' = ClearList(access_order)
    /\ use_order' = <<>>
    /\ cache_last' = [op |-> "clear", key |-> <<>>, arg |-> <<>>, ret |-> RetNone,
                      exc |-> "none"]
    /\ stored' = EmptyDict
    /\ UNCHANGED max_size

DoCacheGet ==
    /\ \E i \in InterestInputs, s \in SkillInputs, g \in GoalInputs : CacheGet(i, s, g)
    /\ UNCHANGED cacheFrame

DoCacheSet ==
    /\ \E i \in InterestInputs, s \in SkillInputs, g \in GoalInputs, v \in CourseLists :
           CacheSet(i, s, g, v)
    /\ UNCHANGED cacheFrame

DoCacheClear == CacheClear /\ UNCHANGED cacheFrame

\* inputs of _generate_key taken on its own
KeyInterests == {<<"a">>, <<"A", " ">>, <<" ", "a", "b">>, <<"a", " ", "b">>,
                 <<"A", "_">>}
KeySkills == {NoneStr, Str(<<>>), Str(<<" ">>), Str(<<"m">>), Str(<<" ", "M", " ">>),
              Str(<<"_">>)}
KeyGoals == {NoneStr, Str(<<>>), Str(<<"c">>)}
KeyQueries == [interests : KeyInterests, skills : KeySkills, goals : KeyGoals]

\* the fingerprint get and set compute for a query
QueryKey(q) == GenerateKey(q.interests, OrEmpty(q.skills), OrEmpty(q.goals))

\* set under the first query on an empty cache, then get under the second
ComputeKeys ==
    /\ ~fp.done
    /\ LET k1 == QueryKey(fp.q1)
           k2 == QueryKey(fp.q2)
           st == SetResult(EmptyDict, <<>>, max_size, k1, <<"c1">>)
           gt == GetResult(st.cache, st.access_order, k2)
       IN  fp' = [done |-> TRUE, q1 |-> fp.q1, q2 |-> fp.q2, k1 |-> k1, k2 |-> k2,
                  ret |-> gt.ret]

DoComputeKeys == ComputeKeys /\ UNCHANGED <<cacheVars, clientVars, rec, sideVars>>

CacheNext == DoCacheGet \/ DoCacheSet \/ DoCacheClear

\* ------------------------------------------------------------------------
\* GeminiAPIClient and ProfessionalAIClient
\* ------------------------------------------------------------------------
Gemini == "GeminiAPIClient"
Professional == "ProfessionalAIClient"
Classes == {Gemini, Professional}

\* `self.max_retries = 3` of ProfessionalAIClient.__init__
ProfessionalMaxRetries == 3

\* inputs: credential values, response texts and attempt failures
KeyValues == {"keyA", "keyB"}
Texts == {"t1", "t2"}
Failures == {"e1", "e2"}

\* the credential lists a client is constructed with
KeyLists == UNION {[1..n -> KeyValues] : n \in 1..MaxKeys}

\* how a call ends: the value returned, or the exception raised with its class
\* and its __cause__. `raise last_error` and `raise e` raise the exception
\* object the attempt caught, which has no cause.
NoOutcome == [kind |-> "none", val |-> "None", type |-> "None", cause |-> "None"]
Returned(v) == [kind |-> "return", val |-> v, type |-> "None", cause |-> "None"]
Raised(e) == [kind |-> "raise", val |-> e, type |-> "AttemptFailure", cause |-> "None"]

\* the values of RETRY_DELAY the model draws from, in seconds
RetryDelays == {0, 2}

\* `self.retry_delay = 2.0` of ProfessionalAIClient.__init__
ProfessionalRetryDelay == 2

\* the dict get_stats returns; success_rate in hundredths of a percent
NoStats == [called |-> FALSE, total_requests |-> 0, total_errors |-> 0,
            success_rate |-> 0]

\* `self.api_keys[self.current_key_index]` raises IndexError unless the index
\* is inside the list
HasKey(keys, idx) == idx < Len(keys)

\* _get_next_api_key: `key = self.api_keys[self.current_key_index]`
CurrentKeyFirst(keys, idx) == keys[1]

CurrentKey(keys, idx) == keys[idx + 1]

\* _get_next_api_key: `(self.current_key_index + 1) % len(self.api_keys)`
NextIndexSkip(keys, idx) == (idx + 2) % Len(keys)

NextIndexStay(keys, idx) == idx

NextIndexToFirst(keys, idx) == 0

NextIndex(keys, idx) == (idx + 1) % Len(keys)

\* `for attempt in range(self.max_retries)`: a is a value of the range
InRangeOneMore(a, m) == a <= m

InRange(a, m) == a < m

\* `if attempt < self.max_retries - 1`
MoreAttemptsAlways(a, m) == a < m

MoreAttempts(a, m) == a < m - 1

\* `self.request_count += 1` and `self.error_count += 1`
BumpTwice(n) == n + 2

BumpDown(n) == n - 1

Bump(n) == n + 1

\* `self.request_count += 1` (GeminiAPIClient only)
CountRequest(c, n) == IF c = Gemini THEN Bump(n) ELSE n

\* `self.error_count += 1` (GeminiAPIClient only)
CountError(c, n) == IF c = Gemini THEN Bump(n) ELSE n

\* what follows the for loop: `raise last_error`, or falling off the end
AfterLoopReturnsNone(c, le) == Returned("None")

AfterLoop(c, le) == IF c = Gemini THEN Raised(le) ELSE Returned("None")

ClientInit ==
    /\ cls \in Classes
    /\ api_keys \in KeyLists
    /\ current_key_index = 0
    /\ max_retries \in (IF cls = Gemini THEN 1..MaxRetries ELSE {ProfessionalMaxRetries})
    /\ retry_delay \in (IF cls = Gemini THEN RetryDelays ELSE {ProfessionalRetryDelay})
    /\ request_count = 0
    /\ error_count = 0
    /\ pc = "idle"
    /\ attempt = 0
    /\ last_error = "None"
    /\ outcome = NoOutcome
    /\ key_log = <<>>
    /\ entry = [request_count |-> 0, error_count |-> 0, current_key_index |-> 0]
    /\ attempts = <<>>
    /\ pauses = 0
    /\ stats = NoStats

\* the loop moves on to value a of range(max_retries), or ends
LoopStep(a, le) ==
    IF InRange(a, max_retries)
    THEN /\ pc' = "try"
         /\ attempt' = a
         /\ outcome' = NoOutcome
    ELSE /\ pc' = "idle"
         /\ attempt' = attempt
         /\ outcome' = AfterLoop(cls, le)

\* a direct call of _get_next_api_key
GetNextApiKey ==
    /\ pc = "idle"
    /\ Len(key_log) < MaxLog
    /\ HasKey(api_keys, current_key_index)
    /\ key_log' = Append(key_log, CurrentKey(api_keys, current_key_index))
    /\ current_key_index' = NextIndex(api_keys, current_key_index)
    /\ UNCHANGED <<cls, api_keys, max_retries, retry_delay, request_count,
                   error_count, pc, attempt, last_error, outcome, entry, attempts,
                   pauses, stats>>

\* generate_content up to the first attempt
GenerateContentEnter ==
    /\ pc = "idle"
    /\ Len(key_log) + max_retries <= MaxLog
    /\ error_count + max_retries <= MaxLog
    /\ request_count' = CountRequest(cls, request_count)
    /\ last_error' = "None"
    /\ entry' = [request_count |-> request_count, error_count |-> error_count,
                 current_key_index |-> current_key_index]
    /\ attempts' = <<>>
    /\ pauses' = 0
    /\ LoopStep(0, "None")
    /\ UNCHANGED <<cls, api_keys, current_key_index, max_retries, retry_delay,
                   error_count, key_log, stats>>

\* one attempt that succeeds: `return response.text`
AttemptSucceed(text) ==
    /\ pc = "try"
    /\ HasKey(api_keys, current_key_index)
    /\ key_log' = Append(key_log, CurrentKey(api_keys, current_key_index))
    /\ current_key_index' = NextIndex(api_keys, current_key_index)
    /\ attempts' = Append(attempts, [index |-> current_key_index,
                                     key |-> CurrentKey(api_keys, current_key_index),
                                     ok |-> TRUE, val |-> text])
    /\ outcome' = Returned(text)
    /\ pc' = "idle"
    /\ UNCHANGED <<cls, api_keys, max_retries, retry_delay, request_count,
                   error_count, attempt, last_error, entry, pauses, stats>>

\* one attempt that fails: the except clause
\* (without a credential at the index the attempt fails in
\* _get_next_api_key, before the rotation, whatever the transport would do)
AttemptFail(e) ==
    LET has == HasKey(api_keys, current_key_index)
        exc == IF has THEN e ELSE "IndexError"
    IN
    /\ pc = "try"
    /\ key_log' = IF has THEN Append(key_log, CurrentKey(api_keys, current_key_index))
                  ELSE key_log
    /\ current_key_index' = IF has THEN NextIndex(api_keys, current_key_index)
                            ELSE current_key_index
    /\ attempts' = Append(attempts,
                          [index |-> current_key_index,
                           key |-> IF has THEN CurrentKey(api_keys, current_key_index)
                                   ELSE "None",
                           ok |-> FALSE, val |-> exc])
    /\ error_count' = CountError(cls, error_count)
    /\ last_error' = IF cls = Gemini THEN exc ELSE last_error
    /\ IF MoreAttempts(attempt, max_retries)
       THEN /\ pc' = "sleep"
            /\ UNCHANGED <<attempt, outcome>>
       ELSE IF cls = Gemini
       THEN LoopStep(attempt + 1, exc)
       ELSE /\ pc' = "idle"
            /\ outcome' = Raised(exc)
            /\ UNCHANGED attempt
    /\ UNCHANGED <<cls, api_keys, max_retries, retry_delay, request_count, entry,
                   pauses, stats>>

\* `time.sleep(self.retry_delay)` and on to the next value of the loop
Sleep ==
    /\ pc = "sleep"
    /\ pauses' = pauses + 1
    /\ LoopStep(attempt + 1, last_error)
    /\ UNCHANGED <<cls, api_keys, current_key_index, max_retries, retry_delay,
                   request_count, error_count, last_error, key_log, entry, attempts,
                   stats>>

\* no client object yet
ClientNew ==
    /\ cls = "None"
    /\ api_keys = <<>>
    /\ current_key_index = 0
    /\ max_retries = 0
    /\ retry_delay = 0
    /\ request_count = 0
    /\ error_count = 0
    /\ pc = "new"
    /\ attempt = 0
    /\ last_error = "None"
    /\ outcome = NoOutcome
    /\ key_log = <<>>
    /\ entry = [request_count |-> 0, error_count |-> 0, current_key_index |-> 0]
    /\ attempts = <<>>
    /\ pauses = 0
    /\ stats = NoStats

\* `if not api_keys: raise ValueError(...)` of ProfessionalAIClient.__init__;
\* GeminiAPIClient.__init__ has no such test
RejectsKeys(c, keys) == c = Professional /\ keys = <<>>

\* __init__ of either class, called with the list keys
Construct(c, keys, m, dly) ==
    /\ pc = "new"
    /\ IF RejectsKeys(c, keys)
       THEN /\ pc' = "failed"
            /\ UNCHANGED <<cls, api_keys, max_retries, retry_delay>>
       ELSE /\ pc' = "idle"
            /\ cls' = c
            /\ api_keys' = keys
            /\ max_retries' = m
            /\ retry_delay' = dly
    /\ UNCHANGED <<current_key_index, request_count, error_count, attempt,
                   last_error, outcome, key_log, entry, attempts, pauses, stats>>

DoConstruct ==
    /\ \E c \in Classes, keys \in KeyLists \cup {<<>>} :
          \E m \in (IF c = Gemini THEN 1..MaxRetries ELSE {ProfessionalMaxRetries}),
             dly \in (IF c = Gemini THEN RetryDelays ELSE {ProfessionalRetryDelay}) :
                Construct(c, keys, m, dly)
    /\ UNCHANGED clientFrame

\* the nearest integer to n / d, for d > 0 (no quotient of the model lies
\* half way between two integers: that needs d >= 64)
RoundDiv(n, d) == (2 * n + d) \div (2 * d)

\* get_stats: `round(((request_count - error_count) / request_count * 100)
\* if request_count > 0 else 0, 2)`, in hundredths of a percent
SuccessRateOfErrors(rc, ec) == IF rc > 0 THEN RoundDiv(ec * 10000, rc) ELSE 0

SuccessRate(rc, ec) == IF rc > 0 THEN RoundDiv((rc - ec) * 10000, rc) ELSE 0

\* GeminiAPIClient.get_stats
GetStats ==
    /\ pc = "idle"
    /\ cls = Gemini
    /\ stats' = [called |-> TRUE, total_requests |-> request_count,
                 total_errors |-> error_count,
                 success_rate |-> SuccessRate(request_count, error_count)]
    /\ UNCHANGED <<cls, api_keys, current_key_index, max_retries, retry_delay,
                   request_count, error_count, pc, attempt, last_error, outcome,
                   key_log, entry, attempts, pauses>>

DoGetStats == GetStats /\ UNCHANGED clientFrame

DoGetNextApiKey == GetNextApiKey /\ UNCHANGED clientFrame

DoGenerateContentEnter == GenerateContentEnter /\ UNCHANGED clientFrame

DoAttemptSucceed == (\E t \in Texts : AttemptSucceed(t)) /\ UNCHANGED clientFrame

DoAttemptFail == (\E e \in Failures : AttemptFail(e)) /\ UNCHANGED clientFrame

DoSleep == Sleep /\ UNCHANGED clientFrame

ClientNext ==
    \/ DoGetNextApiKey
    \/ DoGenerateContentEnter
    \/ DoAttemptSucceed
    \/ DoAttemptFail
    \/ DoSleep
    \/ DoGetStats

\* ------------------------------------------------------------------------
\* _get_next_api_key called from two threads on one client
\* ------------------------------------------------------------------------
Threads == {"t1", "t2"}

\* a thread that has not called yet
ThreadNew == [pc |-> "new", key |-> "None", idx |-> 0]
ThreadsIdle == threads = [t \in Threads |-> ThreadNew]

\* the thread enters _get_next_api_key
ThreadCall(t) ==
    /\ pc = "idle"
    /\ threads[t].pc = "new"
    /\ threads' = [threads EXCEPT ![t].pc = "call"]
    /\ UNCHANGED clientVars

\* `key = self.api_keys[self.current_key_index]`
ThreadReadKey(t) ==
    /\ threads[t].pc = "call"
    /\ HasKey(api_keys, current_key_index)
    /\ threads' = [threads EXCEPT ![t].pc = "keyed",
                                  ![t].key = CurrentKey(api_keys, current_key_index)]
    /\ UNCHANGED clientVars

\* the read of self.current_key_index on the right of the assignment
ThreadReadIndex(t) ==
    /\ threads[t].pc = "keyed"
    /\ threads' = [threads EXCEPT ![t].pc = "read", ![t].idx = current_key_index]
    /\ UNCHANGED clientVars

\* the write of self.current_key_index, and `return key`
ThreadWrite(t) ==
    /\ threads[t].pc = "read"
    /\ current_key_index' = NextIndex(api_keys, threads[t].idx)
    /\ key_log' = Append(key_log, threads[t].key)
    /\ threads' = [threads EXCEPT ![t].pc = "done"]
    /\ UNCHANGED <<cls, api_keys, max_retries, retry_delay, request_count,
                   error_count, pc, attempt, last_error, outcome, entry, attempts,
                   pauses, stats>>

\* a call made before either thread starts
SoloCall ==
    /\ \A t \in Threads : threads[t].pc = "new"
    /\ GetNextApiKey
    /\ UNCHANGED threads

threadFrame == <<cacheVars, fp, rec, duo, procall, store>>

DoSoloCall == SoloCall /\ UNCHANGED threadFrame
DoThreadCall == (\E t \in Threads : ThreadCall(t)) /\ UNCHANGED threadFrame
DoThreadReadKey == (\E t \in Threads : ThreadReadKey(t)) /\ UNCHANGED threadFrame
DoThreadReadIndex == (\E t \in Threads : ThreadReadIndex(t)) /\ UNCHANGED threadFrame
DoThreadWrite == (\E t \in Threads : ThreadWrite(t)) /\ UNCHANGED threadFrame

ThreadsNext ==
    \/ DoSoloCall
    \/ DoThreadCall
    \/ DoThreadReadKey
    \/ DoThreadReadIndex
    \/ DoThreadWrite

\* ------------------------------------------------------------------------
\* A GeminiAPIClient and a ProfessionalAIClient on the same transport pattern
\* ------------------------------------------------------------------------
\* what the transport does with one attempt: a text, or a failure
Results == {[ok |-> TRUE, val |-> "t1"], [ok |-> FALSE, val |-> "e1"],
            [ok |-> FALSE, val |-> "e2"]}

\* what it does with the attempts of one call, by attempt number
Patterns == [1..ProfessionalMaxRetries -> Results]

\* no second client
DuoIdle == duo = [pattern |-> <<>>, pro |-> [pc |-> "none"]]

\* ProfessionalAIClient.__init__ on a non-empty list
ProInit(keys) ==
    [api_keys |-> keys, current_key_index |-> 0,
     max_retries |-> ProfessionalMaxRetries, retry_delay |-> ProfessionalRetryDelay,
     pc |-> "idle", attempt |-> 0, outcome |-> NoOutcome, attempts |-> <<>>,
     pauses |-> 0]

\* `raise e` on the final attempt
ProRaiseNothing(e) == Returned("None")

ProRaise(e) == Raised(e)

\* the for loop of ProfessionalAIClient.generate_content moves on to value a
ProLoopStep(p, a) ==
    IF InRange(a, p.max_retries)
    THEN [p EXCEPT !.pc = "try", !.attempt = a, !.outcome = NoOutcome]
    ELSE [p EXCEPT !.pc = "idle", !.outcome = Returned("None")]

\* ProfessionalAIClient.generate_content up to the first attempt
ProEnter(p) == ProLoopStep([p EXCEPT !.attempts = <<>>, !.pauses = 0], 0)

\* one attempt: _get_next_api_key, then the transport's result r
ProAttempt(p, r) ==
    LET q == [p EXCEPT !.current_key_index = NextIndex(p.api_keys, p.current_key_index),
                       !.attempts = Append(p.attempts,
                           [index |-> p.current_key_index,
                            key |-> CurrentKey(p.api_keys, p.current_key_index),
                            ok |-> r.ok, val |-> r.val])]
    IN  IF r.ok THEN [q EXCEPT !.pc = "idle", !.outcome = Returned(r.val)]
        ELSE IF MoreAttempts(p.attempt, p.max_retries) THEN [q EXCEPT !.pc = "sleep"]
        ELSE [q EXCEPT !.pc = "idle", !.outcome = ProRaise(r.val)]

\* `time.sleep(self.retry_delay)` and on to the next value of the loop
ProSleep(p) == ProLoopStep([p EXCEPT !.pauses = p.pauses + 1], p.attempt + 1)

\* both clients are given a prompt, and the transport its pattern
DuoCall(pattern) ==
    /\ duo.pro.pc = "idle"
    /\ GenerateContentEnter
    /\ duo' = [pattern |-> pattern, pro |-> ProEnter(duo.pro)]

\* the GeminiAPIClient makes its next attempt
DuoGeminiAttempt ==
    /\ pc = "try"
    /\ LET r == duo.pattern[attempt + 1]
       IN  IF r.ok THEN AttemptSucceed(r.val) ELSE AttemptFail(r.val)
    /\ UNCHANGED duo

DuoGeminiSleep == Sleep /\ UNCHANGED duo

\* the ProfessionalAIClient makes its next attempt
DuoProAttempt ==
    /\ duo.pro.pc = "try"
    /\ duo' = [duo EXCEPT !.pro = ProAttempt(duo.pro, duo.pattern[duo.pro.attempt + 1])]
    /\ UNCHANGED clientVars

DuoProSleep ==
    /\ duo.pro.pc = "sleep"
    /\ duo' = [duo EXCEPT !.pro = ProSleep(duo.pro)]
    /\ UNCHANGED clientVars

duoFrame == <<cacheVars, fp, rec, threads, procall, store>>

DoDuoCall == (\E pattern \in Patterns : DuoCall(pattern)) /\ UNCHANGED duoFrame
DoDuoGeminiAttempt == DuoGeminiAttempt /\ UNCHANGED duoFrame
DoDuoGeminiSleep == DuoGeminiSleep /\ UNCHANGED duoFrame
DoDuoProAttempt == DuoProAttempt /\ UNCHANGED duoFrame
DoDuoProSleep == DuoProSleep /\ UNCHANGED duoFrame

DuoNext ==
    \/ DoDuoCall
    \/ DoDuoGeminiAttempt
    \/ DoDuoGeminiSleep
    \/ DoDuoProAttempt
    \/ DoDuoProSleep

\* ------------------------------------------------------------------------
\* recommend_courses (module level, on the module's cache and api_client)
\* ------------------------------------------------------------------------
\* the queries recommend_courses is called with
RecQueries ==
    {[interests |-> <<"a">>, skills |-> NoneStr, goals |-> NoneStr],
     [interests |-> <<"A", " ">>, skills |-> Str(<<>>), goals |-> NoneStr],
     [interests |-> <<"b">>, skills |-> NoneStr, goals |-> NoneStr],
     [interests |-> <<" ", "C">>, skills |-> NoneStr, goals |-> NoneStr]}

\* course dicts of a response: the second lacks 'url', the third brings its
\* own 'source'
Course1 == [title |-> "T1", platform |-> "P1", url |-> "U1"]
Course2 == [title |-> "T2", platform |-> "P2"]
Course3 == [title |-> "T3", platform |-> "P1", url |-> "U3", source |-> "web"]

\* the JSON documents a response may hold, by the text between the braces
Documents ==
    [dNoKey   |-> [other |-> <<>>],
     dOne     |-> [courses |-> <<Course1>>],
     dMixed   |-> [courses |-> <<Course2, Course3>>],
     dThree   |-> [courses |-> <<Course1, Course2, Course3>>],
     dRoad    |-> [subject |-> "s1", learning_path |-> <<[step |-> 1]>>],
     dInvalid |-> [courses |-> <<Course2>>]]

\* the response texts, as sequences of pieces: braces, a document, other text
ResponseBody ==
    [rPlain   |-> <<"x">>,
     rClosed  |-> <<"}", "x", "{">>,
     rBroken  |-> <<"{", "x", "}">>,
     rOne     |-> <<"x", "{", "dOne", "}", "x">>,
     rMixed   |-> <<"{", "dMixed", "}">>,
     rThree   |-> <<"{", "dThree", "}">>,
     rRoad    |-> <<"x", "{", "dRoad", "}">>,
     rInvalid |-> <<"{", "dInvalid", "}">>,
     rNoKey   |-> <<"{", "dNoKey", "}">>]

Responses == DOMAIN ResponseBody

\* str.find and str.rfind: the index from 0, or -1
Find(s, ch) ==
    LET I == {i \in 1..Len(s) : s[i] = ch}
    IN  IF I = {} THEN -1 ELSE (CHOOSE i \in I : \A j \in I : i <= j) - 1

RFind(s, ch) ==
    LET I == {i \in 1..Len(s) : s[i] = ch}
    IN  IF I = {} THEN -1 ELSE (CHOOSE i \in I : \A j \in I : i >= j) - 1

\* the slice s[a:b] for 0 <= a < b
Slice(s, a, b) == SubSeq(s, a + 1, b)

\* json.loads: the document, or JSONDecodeError
Loads(s) ==
    IF Len(s) = 3 /\ s[1] = "{" /\ s[3] = "}" /\ s[2] \in DOMAIN Documents
    THEN [ok |-> TRUE, data |-> Documents[s[2]]]
    ELSE [ok |-> FALSE, data |-> [other |-> <<>>]]

\* dict.get with a default
DictGet(d, k, default) == IF k \in DOMAIN d THEN d[k] ELSE default

\* `all(key in course for key in ['title', 'platform', 'url'])`
RequiredKeys == {"title", "platform", "url"}
IsValidCourseAny(c) == TRUE

IsValidCourse(c) == RequiredKeys \subseteq DOMAIN c

\* `course['source'] = 'AI Generated'`
MarkSourceIfAbsent(c) ==
    [k \in (DOMAIN c) \cup {"source"} |->
        IF k \in DOMAIN c THEN c[k] ELSE "AI Generated"]

MarkSource(c) ==
    [k \in (DOMAIN c) \cup {"source"} |-> IF k = "source" THEN "AI Generated" ELSE c[k]]

\* the validation loop over ai_courses
RECURSIVE ValidateCourses(_)
ValidateCourses(cs) ==
    IF cs = <<>> THEN <<>>
    ELSE IF IsValidCourse(Head(cs))
    THEN <<MarkSource(Head(cs))>> \o ValidateCourses(Tail(cs))
    ELSE ValidateCourses(Tail(cs))

\* `if cached_result:` None and the empty list are false
IsTruthyNever(r) == FALSE

IsTruthy(r) == ~r.isNone /\ r.val # <<>>

\* what the parsing block makes of a response text: the list it returns and
\* whether it gets as far as the validated list
ParseResponse(text) ==
    LET body == ResponseBody[text]
        json_start == Find(body, "{")
        json_end == RFind(body, "}") + 1
    IN  IF json_start # -1 /\ json_end > json_start
        THEN LET l == Loads(Slice(body, json_start, json_end))
             IN  IF l.ok
                 THEN [parsed |-> TRUE,
                       courses |-> ValidateCourses(DictGet(l.data, "courses", <<>>))]
                 ELSE [parsed |-> FALSE, courses |-> <<>>]
        ELSE [parsed |-> FALSE, courses |-> <<>>]

\* no call of recommend_courses made yet
NoQuery == [interests |-> <<>>, skills |-> NoneStr, goals |-> NoneStr]
RecNew == [pc |-> "idle", q |-> NoQuery, hit |-> FALSE, ret |-> <<>>, exc |-> "none"]

\* recommend_courses from its entry to `return cached_result` or to the first
\* attempt of api_client.generate_content
RecommendStart(q) ==
    LET skills == Str(OrEmpty(q.skills))
        goals == Str(OrEmpty(q.goals))
        r == GetResult(cache, access_order, GenerateKey(q.interests, skills.s, goals.s))
    IN  /\ rec.pc # "api"
        /\ pc = "idle"
        /\ CacheGet(q.interests, skills, goals)
        /\ IF r.exc # "none"
           THEN /\ rec' = [pc |-> "done", q |-> q, hit |-> FALSE, ret |-> <<>>,
                           exc |-> r.exc]
                /\ UNCHANGED clientVars
           ELSE IF IsTruthy(r.ret)
           THEN /\ rec' = [pc |-> "done", q |-> q, hit |-> TRUE, ret |-> r.ret.val,
                           exc |-> "none"]
                /\ UNCHANGED clientVars
           ELSE /\ rec' = [pc |-> "api", q |-> q, hit |-> FALSE, ret |-> <<>>,
                           exc |-> "none"]
                /\ GenerateContentEnter

\* recommend_courses from the end of generate_content to its return
RecommendFinish ==
    LET q == rec.q
        skills == Str(OrEmpty(q.skills))
        goals == Str(OrEmpty(q.goals))
        p == IF outcome.kind = "return" THEN ParseResponse(outcome.val)
             ELSE [parsed |-> FALSE, courses |-> <<>>]
        r == SetResult(cache, access_order, max_size,
                       GenerateKey(q.interests, skills.s, goals.s), p.courses)
    IN  /\ rec.pc = "api"
        /\ pc = "idle"
        /\ IF p.courses # <<>>
           THEN /\ CacheSet(q.interests, skills, goals, p.courses)
                /\ rec' = [rec EXCEPT !.pc = "done",
                                      !.ret = IF r.exc = "none" THEN p.courses ELSE <<>>]
           ELSE /\ UNCHANGED cacheVars
                /\ rec' = [rec EXCEPT !.pc = "done", !.ret = <<>>]
        /\ UNCHANGED clientVars

DoRecommendStart ==
    (\E q \in RecQueries : RecommendStart(q)) /\ UNCHANGED <<fp, sideVars>>

DoRecommendFinish == RecommendFinish /\ UNCHANGED <<fp, sideVars>>

\* the transport answers an attempt of the call with a response text
DoAttemptRespond == (\E t \in Responses : AttemptSucceed(t)) /\ UNCHANGED clientFrame

RecommendNext ==
    \/ DoRecommendStart
    \/ DoAttemptRespond
    \/ DoAttemptFail
    \/ DoSleep
    \/ DoRecommendFinish

\* ------------------------------------------------------------------------
\* ProfessionalAIClient.generate_roadmap and .recommend_courses
\* ------------------------------------------------------------------------
Subjects == {"s1", "s2"}
ProOps == {"generate_roadmap", "recommend_courses"}

\* `range(8)` of the fallback roadmap
FallbackSteps == 8

\* the difficulty list of the fallback roadmap
FallbackDifficulty ==
    <<"Beginner", "Beginner", "Intermediate", "Intermediate", "Intermediate",
      "Advanced", "Advanced", "Advanced">>

\* `"step": i+1`
StepNumberFromZero(i) == i

StepNumber(i) == i + 1

\* the dict after `# Fallback roadmap`, with the fields that vary
FallbackRoadmap(subject) ==
    [subject |-> subject,
     total_duration |-> "6-12 months",
     learning_path |->
        [k \in 1..FallbackSteps |->
            [step |-> StepNumber(k - 1),
             difficulty |-> FallbackDifficulty[k],
             duration |-> "2-4 weeks"]]]

\* the try block after generate_content returned text: the object parsed
\* from it, or nothing (no braces, or an exception)
ProParse(text) ==
    IF text \notin Responses THEN [ok |-> FALSE, data |-> [other |-> <<>>]]
    ELSE LET body == ResponseBody[text]
             json_start == Find(body, "{")
             json_end == RFind(body, "}") + 1
         IN  IF json_start # -1 /\ json_end > json_start
             THEN Loads(Slice(body, json_start, json_end))
             ELSE [ok |-> FALSE, data |-> [other |-> <<>>]]

\* no call made yet
ProcallIdle == procall = [pc |-> "idle"]

\* the method is entered and calls self.generate_content
ProCall(op, subject) ==
    /\ procall.pc # "api"
    /\ cls = Professional
    /\ GenerateContentEnter
    /\ procall' = [pc |-> "api", op |-> op, subject |-> subject]

\* from the end of generate_content to the return of the method
ProReturn ==
    LET p == IF outcome.kind = "return" THEN ProParse(outcome.val)
             ELSE [ok |-> FALSE, data |-> [other |-> <<>>]]
    IN  /\ procall.pc = "api"
        /\ pc = "idle"
        /\ procall' =
              IF procall.op = "generate_roadmap"
              THEN [pc |-> "done", op |-> procall.op, subject |-> procall.subject,
                    exc |-> "none",
                    ret |-> IF p.ok THEN p.data ELSE FallbackRoadmap(procall.subject)]
              ELSE [pc |-> "done", op |-> procall.op, subject |-> procall.subject,
                    exc |-> "none",
                    ret |-> IF p.ok THEN DictGet(p.data, "courses", <<>>) ELSE <<>>]
        /\ UNCHANGED clientVars

procallFrame == <<cacheVars, fp, rec, threads, duo, store>>

DoProCall ==
    (\E op \in ProOps, subject \in Subjects : ProCall(op, subject))
        /\ UNCHANGED procallFrame

DoProReturn == ProReturn /\ UNCHANGED procallFrame

ProNext ==
    \/ DoProCall
    \/ DoAttemptRespond
    \/ DoAttemptFail
    \/ DoSleep
    \/ DoProReturn

\* ------------------------------------------------------------------------
\* CourseDataStore with storage_type "json": save_course and get_courses
\* ------------------------------------------------------------------------
\* the course dicts passed to save_course: the second brings an id and a
\* level, the third holds a set under 'tags'
StoreCourses ==
    {[title |-> "T1"],
     [title |-> "T2", id |-> 7, level |-> <<"B">>],
     [title |-> "T3", tags |-> "set"]}

\* whether json.dump can encode the dict: in the inputs above only the value
\* under 'tags' is not a JSON value
Serializable(c) == "tags" \notin DOMAIN c

\* an optional int argument: None, or an int
NoneInt == [none |-> TRUE, n |-> 0]
Int_(n) == [none |-> FALSE, n |-> n]

\* the arguments of get_courses
LimitInputs == {NoneInt, Int_(0), Int_(1)}
LevelInputs == {NoneStr, Str(<<"b">>)}

\* courses.json: absent, holding a JSON list, or holding what json.dump wrote
\* before it raised
FileAbsent == [state |-> "absent", data |-> <<>>]
FileList(data) == [state |-> "list", data |-> data]
FileBroken == [state |-> "broken", data |-> <<>>]

\* _load_json_file: [] when the file is absent or does not parse
LoadJsonFile(f) == IF f.state = "list" THEN f.data ELSE <<>>

\* _save_json_file: open(file_path, 'w') truncates the file, then json.dump
\* writes the list, raising TypeError at the first value it cannot encode
SaveJsonFile(data) ==
    IF \A i \in 1..Len(data) : Serializable(data[i])
    THEN [file |-> FileList(data), exc |-> "none"]
    ELSE [file |-> FileBroken, exc |-> "TypeError"]

\* `course_data['id'] = course_id; course_data['created_at'] = ...`
IdFor(courses) == Len(courses) + 1

Stamp(c, course_id) ==
    [k \in (DOMAIN c) \cup {"id", "created_at"} |->
        IF k = "id" THEN course_id ELSE IF k = "created_at" THEN "now" ELSE c[k]]

\* dict.get('level', '')
LevelOf(c) == IF "level" \in DOMAIN c THEN c.level ELSE <<>>

\* `[c for c in courses if c.get('level', '').lower() == level.lower()]`
RECURSIVE FilterLevel(_, _)
FilterLevel(courses, level) ==
    IF courses = <<>> THEN <<>>
    ELSE IF Lower(LevelOf(Head(courses))) = Lower(level)
    THEN <<Head(courses)>> \o FilterLevel(Tail(courses), level)
    ELSE FilterLevel(Tail(courses), level)

\* `courses[:limit]` for limit >= 0
Prefix(courses, limit) ==
    SubSeq(courses, 1, IF limit < Len(courses) THEN limit ELSE Len(courses))

\* _get_courses_json
GetCoursesJson(f, limit, level) ==
    LET all == LoadJsonFile(f)
        byLevel == IF ~level.none /\ level.s # <<>> THEN FilterLevel(all, level.s)
                   ELSE all
    IN  IF ~limit.none /\ limit.n # 0 THEN Prefix(byLevel, limit.n) ELSE byLevel

\* a store on an empty data directory, before any call
StoreNew ==
    [file |-> FileAbsent, calls |-> <<>>, kept |-> <<>>,
     got |-> [called |-> FALSE, limit |-> NoneInt, level |-> NoneStr, ret |-> <<>>]]
StoreIdle == store = StoreNew

\* save_course: _save_course_json. calls is the history of what each call
\* returned or raised, kept the history of the dicts of the calls that
\* returned
SaveCourse(c) ==
    LET courses == LoadJsonFile(store.file)
        course_id == IdFor(courses)
        r == SaveJsonFile(Append(courses, Stamp(c, course_id)))
    IN  /\ Len(store.calls) < MaxSaves
        /\ store' = [store EXCEPT
                !.file = r.file,
                !.calls = Append(@, [id |-> IF r.exc = "none" THEN course_id ELSE 0,
                                     exc |-> r.exc]),
                !.kept = IF r.exc = "none" THEN Append(@, c) ELSE @]

\* get_courses(limit, level)
GetCourses(limit, level) ==
    store' = [store EXCEPT
        !.got = [called |-> TRUE, limit |-> limit, level |-> level,
                 ret |-> GetCoursesJson(store.file, limit, level)]]

storeFrame == <<cacheVars, clientVars, fp, rec, threads, duo, procall>>

DoSaveCourse == (\E c \in StoreCourses : SaveCourse(c)) /\ UNCHANGED storeFrame

DoGetCourses ==
    (\E limit \in LimitInputs, level \in LevelInputs : GetCourses(limit, level))
        /\ UNCHANGED storeFrame

StoreNext ==
    \/ DoSaveCourse
    \/ DoGetCourses

\* ------------------------------------------------------------------------
\* Specifications
\* ------------------------------------------------------------------------
\* the module-level objects as constructed with the default configuration
\* and both credentials, before any call
ClientFresh ==
    /\ cls = Gemini
    /\ api_keys = <<"keyA", "keyB">>
    /\ current_key_index = 0
    /\ max_retries = 3
    /\ retry_delay = 2
    /\ request_count = 0
    /\ error_count = 0
    /\ pc = "idle"
    /\ attempt = 0
    /\ last_error = "None"
    /\ outcome = NoOutcome
    /\ key_log = <<>>
    /\ entry = [request_count |-> 0, error_count |-> 0, current_key_index |-> 0]
    /\ attempts = <<>>
    /\ pauses = 0
    /\ stats = NoStats

CacheFresh ==
    /\ max_size = MaxSize
    /\ cache = EmptyDict
    /\ access_order = <<>>
    /\ use_order = <<>>
    /\ cache_last = [op |-> "init", key |-> <<>>, arg |-> <<>>, ret |-> RetNone,
                     exc |-> "none"]
    /\ stored = EmptyDict

\* no fingerprint computed and no recommend_courses call made
FpIdle == fp = [done |-> FALSE]
RecIdle == rec = [pc |-> "idle"]
SideIdle == ThreadsIdle /\ DuoIdle /\ ProcallIdle /\ StoreIdle

\* the cache under any sequence of get, set and clear
InitCache == CacheInit /\ ClientFresh /\ FpIdle /\ RecIdle /\ SideIdle

SpecCache == InitCache /\ [][CacheNext]_vars

\* one client under any sequence of calls and transport outcomes
InitClient == ClientInit /\ CacheFresh /\ FpIdle /\ RecIdle /\ SideIdle

SpecClient == InitClient /\ [][ClientNext]_vars

\* one client under generate_content calls only
CallsNext ==
    \/ DoGenerateContentEnter
    \/ DoAttemptSucceed
    \/ DoAttemptFail
    \/ DoSleep

SpecCalls == InitClient /\ [][CallsNext]_vars

\* _generate_key on two queries
InitKey ==
    /\ CacheFresh
    /\ ClientFresh
    /\ RecIdle
    /\ SideIdle
    /\ \E q1, q2 \in KeyQueries : fp = [done |-> FALSE, q1 |-> q1, q2 |-> q2]

KeyNext == DoComputeKeys

SpecKey == InitKey /\ [][KeyNext]_vars

\* the module after import: its cache, and its api_client on the loaded keys
InitRecommend ==
    /\ CacheInit
    /\ ClientInit
    /\ cls = Gemini
    /\ api_keys = <<"keyA", "keyB">>
    /\ max_retries = 2
    /\ retry_delay = 2
    /\ FpIdle
    /\ rec = RecNew
    /\ SideIdle

SpecRecommend == InitRecommend /\ [][RecommendNext]_vars

\* one client shared by two threads, each calling _get_next_api_key once
InitThreads == ClientInit /\ CacheFresh /\ FpIdle /\ RecIdle /\ SideIdle

SpecThreads == InitThreads /\ [][ThreadsNext]_vars

\* the two client classes constructed with the same credentials
InitDuo ==
    /\ ClientInit
    /\ cls = Gemini
    /\ max_retries = ProfessionalMaxRetries
    /\ CacheFresh
    /\ FpIdle
    /\ RecIdle
    /\ ThreadsIdle
    /\ ProcallIdle
    /\ StoreIdle
    /\ duo = [pattern |-> <<>>, pro |-> ProInit(api_keys)]

SpecDuo == InitDuo /\ [][DuoNext]_vars

\* a ProfessionalAIClient under generate_roadmap and recommend_courses calls
InitPro ==
    /\ ClientInit
    /\ cls = Professional
    /\ CacheFresh
    /\ FpIdle
    /\ RecIdle
    /\ SideIdle

SpecPro == InitPro /\ [][ProNext]_vars

\* a CourseDataStore on an empty data directory
InitStore ==
    /\ CacheFresh
    /\ ClientFresh
    /\ FpIdle
    /\ RecIdle
    /\ SideIdle

SpecStore == InitStore /\ [][StoreNext]_vars

\* a client from its construction on, with any list of credentials
InitConstruct == ClientNew /\ CacheFresh /\ FpIdle /\ RecIdle /\ SideIdle

ConstructNext ==
    \/ DoConstruct
    \/ DoGetNextApiKey
    \/ DoGenerateContentEnter
    \/ DoAttemptSucceed
    \/ DoAttemptFail
    \/ DoSleep
    \/ DoGetStats

SpecConstruct == InitConstruct /\ [][ConstructNext]_vars

\* ------------------------------------------------------------------------
\* Properties of SimpleCache (checked under SpecCache)
\* ------------------------------------------------------------------------
\* C1: len(cache) == len(access_order), and every key of the mapping appears
\* exactly once in access_order, in every reachable state.
C1_OrderMatchesCache ==
    /\ Cardinality(DOMAIN cache) = Len(access_order)
    /\ \A k \in DOMAIN cache : Count(access_order, k) = 1

\* C2: the number of entries of the mapping never exceeds max_size.
C2_CapacityNeverExceeded == Cardinality(DOMAIN cache) <= max_size

\* a set has completed on a cache that is full and has evicted before
C2_Witness ==
    /\ cache_last.op = "set"
    /\ cache_last.exc = "none"
    /\ Cardinality(DOMAIN cache) = max_size
    /\ \E k \in Range(access_order) : k \notin DOMAIN cache

\* C3: a set of a fingerprint that is already present, on a cache at maximum
\* capacity, evicts nothing: the value is overwritten, every other entry
\* stays, and the fingerprint becomes the tail of access_order.
C3_SetPresentAtCapacityKeepsAll ==
    [][(/\ cache_last'.op = "set"
        /\ cache_last'.key \in DOMAIN cache
        /\ Cardinality(DOMAIN cache) = max_size)
       => (/\ cache_last'.exc = "none"
           /\ DOMAIN cache' = DOMAIN cache
           /\ \A k \in (DOMAIN cache) \ {cache_last'.key} : cache'[k] = cache[k]
           /\ cache'[cache_last'.key] = cache_last'.arg
           /\ access_order' # <<>>
           /\ access_order'[Len(access_order')] = cache_last'.key)]_cacheVars

\* C4: no cache call raises; absence is reported only by get returning None.
C4_CacheNeverRaises ==
    /\ cache_last.exc = "none"
    /\ (cache_last.op = "get" /\ cache_last.ret.isNone) => cache_last.key \notin DOMAIN cache

\* C5: a set that inserts an absent fingerprint into a full cache removes
\* exactly the entry whose most recent use is the oldest.
C5_EvictsLeastRecentlyUsed ==
    [][(/\ cache_last'.op = "set"
        /\ cache_last'.key \notin DOMAIN cache
        /\ Cardinality(DOMAIN cache) >= max_size)
       => (/\ cache_last'.exc = "none"
           /\ DOMAIN cache' =
                ((DOMAIN cache) \ {Head(use_order)}) \cup {cache_last'.key})]_cacheVars

\* ------------------------------------------------------------------------
\* Properties of the API clients (checked under SpecClient)
\* ------------------------------------------------------------------------
\* a generate_content call has started, or has ended, on this client
Called == pc # "idle" \/ outcome.kind # "none"

\* the number of failed attempts of the current call
FailedAttempts == Cardinality({i \in 1..Len(attempts) : ~attempts[i].ok})

\* C6: error_count <= request_count in every reachable state.
C6_ErrorsAtMostRequests == error_count <= request_count

\* C7: a call makes at most max_retries attempts and stops at the first
\* success; when every attempt fails it makes exactly max_retries attempts
\* and ends by raising, never by returning.
C7_AttemptsBounded ==
    /\ Len(attempts) <= max_retries
    /\ pc # "idle" => Len(attempts) < max_retries
    /\ \A i \in 1..(Len(attempts) - 1) : ~attempts[i].ok
    /\ (attempts # <<>> /\ attempts[Len(attempts)].ok)
          => pc = "idle" /\ outcome = Returned(attempts[Len(attempts)].val)
    /\ (pc = "idle" /\ outcome.kind # "none" /\ FailedAttempts = Len(attempts))
          => Len(attempts) = max_retries /\ outcome.kind = "raise"
    /\ outcome.kind = "raise" => FailedAttempts = max_retries

\* a call with three attempts allowed has failed three times and raised
C7_Witness ==
    /\ pc = "idle"
    /\ max_retries = 3
    /\ outcome.kind = "raise"
    /\ Len(attempts) = 3
    /\ FailedAttempts = 3

\* C8: a generate_content call adds exactly 1 to request_count and exactly
\* the number of its failed attempts to error_count: max_retries when it
\* exhausts its attempts, k when attempt k+1 succeeds.
C8_CountersPerCall ==
    (cls = Gemini /\ Called) =>
        /\ request_count = entry.request_count + 1
        /\ error_count = entry.error_count + FailedAttempts
        /\ outcome.kind = "raise" => error_count = entry.error_count + max_retries
        /\ outcome.kind = "return" => error_count = entry.error_count + Len(attempts) - 1

\* a later call of a GeminiAPIClient has succeeded at its third attempt
C8_Witness ==
    /\ cls = Gemini
    /\ pc = "idle"
    /\ outcome.kind = "return"
    /\ Len(attempts) = 3
    /\ entry.request_count >= 1
    /\ entry.error_count >= 1
    /\ error_count = entry.error_count + 2

\* C9: the i-th call of _get_next_api_key returns the credential at position
\* (i-1) mod N of the list, so N consecutive calls return every credential
\* once in construction order and call N+1 returns the first again; and
\* current_key_index stays within 0..N-1.
C9_RoundRobin ==
    LET N == Len(api_keys)
    IN  N >= 1 =>
            /\ current_key_index \in 0..(N - 1)
            /\ current_key_index = Len(key_log) % N
            /\ \A i \in 1..Len(key_log) : key_log[i] = api_keys[((i - 1) % N) + 1]

\* three direct calls on a client with two different credentials
C9_Witness ==
    /\ Len(api_keys) = 2
    /\ api_keys[1] # api_keys[2]
    /\ pc = "idle"
    /\ outcome.kind = "none"
    /\ Len(key_log) = 3
    /\ key_log[3] = api_keys[1]

\* C10 (as stated): within one call a retry uses the next credential in
\* rotation order and never the credential whose attempt just failed, for
\* every pool size including one.
C10_RetryNeverReusesKey ==
    \A i \in 1..(Len(attempts) - 1) :
        /\ attempts[i + 1].index = (attempts[i].index + 1) % Len(api_keys)
        /\ attempts[i + 1].key # attempts[i].key

\* C10 (amended): within one call a retry uses the credential at the next
\* position in rotation order; the position differs from the one that just
\* failed when the pool holds at least two credentials, the credential
\* differs when the credentials are pairwise distinct, and with a pool of
\* one credential the retry reuses that credential.
C10_RetryUsesNextKey ==
    LET N == Len(api_keys)
    IN  \A i \in 1..(Len(attempts) - 1) :
            /\ attempts[i + 1].index = (attempts[i].index + 1) % N
            /\ attempts[i + 1].key = api_keys[attempts[i + 1].index + 1]
            /\ N >= 2 => attempts[i + 1].index # attempts[i].index
            /\ (N >= 2 /\ \A a, b \in 1..N : a # b => api_keys[a] # api_keys[b])
                  => attempts[i + 1].key # attempts[i].key
            /\ N = 1 => attempts[i + 1].key = attempts[i].key

\* a retry on a client with two different credentials
C10_Witness ==
    /\ Len(api_keys) = 2
    /\ api_keys[1] # api_keys[2]
    /\ Len(attempts) >= 2
    /\ ~attempts[1].ok
    /\ attempts[2].key # attempts[1].key

\* C11: when every attempt fails, the error raised is of a distinct
\* retry-exhaustion kind whose cause is the failure of the final attempt; a
\* per-attempt failure is never raised to the caller itself.
C11_ExhaustionRaisesDistinctError ==
    outcome.kind = "raise" =>
        /\ outcome.type = "ExhaustedRetriesError"
        /\ outcome.cause = attempts[Len(attempts)].val

\* C13: a call in which some attempt succeeds returns normally; on a fresh
\* client with pool [keyA, keyB] and max_retries 3, a failure followed by a
\* success returns the text of the success, uses keyA then keyB and leaves
\* error_count = 1 and request_count = 1.
C13_Scenario ==
    /\ cls = Gemini
    /\ api_keys = <<"keyA", "keyB">>
    /\ max_retries = 3
    /\ entry = [request_count |-> 0, error_count |-> 0, current_key_index |-> 0]
    /\ Len(attempts) = 2
    /\ ~attempts[1].ok
    /\ attempts[2].ok

C13_SuccessAfterTransientFailure ==
    /\ (\E i \in 1..Len(attempts) : attempts[i].ok)
          => pc = "idle" /\ outcome.kind = "return"
    /\ C13_Scenario =>
          /\ outcome = Returned(attempts[2].val)
          /\ attempts[1].key = "keyA"
          /\ attempts[2].key = "keyB"
          /\ error_count = 1
          /\ request_count = 1

\* the scenario has run to its end
C13_Witness == C13_Scenario /\ pc = "idle" /\ outcome.kind = "return"

\* C14: get_stats returns request_count, error_count and the success rate
\* (request_count - error_count) / request_count * 100 rounded to two
\* decimals, 0 when request_count is 0, and changes nothing in the client.
C14_GetStats ==
    [][stats' # stats =>
        /\ stats'.called
        /\ stats'.total_requests = request_count
        /\ stats'.total_errors = error_count
        /\ request_count = 0 => stats'.success_rate = 0
        /\ request_count > 0 =>
              LET diff == stats'.success_rate * request_count
                              - (request_count - error_count) * 10000
              IN  2 * diff <= request_count /\ 2 * (0 - diff) <= request_count
        /\ UNCHANGED <<cls, api_keys, current_key_index, max_retries, retry_delay,
                       request_count, error_count, pc, attempt, last_error,
                       outcome, key_log, entry, attempts, pauses>>]_vars

\* get_stats after two calls, one failed attempt: 50.00 percent
C14_Witness ==
    /\ stats.called
    /\ stats.total_requests = 2
    /\ stats.total_errors = 1
    /\ stats.success_rate = 5000

C19_PausesBetweenAttempts ==
    /\ pc = "try" => pauses = Len(attempts)
    /\ pc = "sleep" => pauses = Len(attempts) - 1
    /\ (pc = "idle" /\ outcome.kind = "return") => pauses = Len(attempts) - 1
    /\ (pc = "idle" /\ outcome.kind = "raise") => pauses = max_retries - 1

\* three attempts have failed with two pauses between them
C19_Witness ==
    /\ pc = "idle"
    /\ outcome.kind = "raise"
    /\ max_retries = 3
    /\ Len(attempts) = 3
    /\ pauses = 2

\* C20: no step decreases request_count or error_count, and none changes
\* api_keys, max_retries or retry_delay.
C20_CountersNeverDecrease ==
    [][/\ request_count' >= request_count
       /\ error_count' >= error_count
       /\ UNCHANGED <<api_keys, max_retries, retry_delay>>]_vars

\* calls, failures, a rotation and get_stats have all happened
C20_Witness ==
    /\ request_count >= 2
    /\ error_count >= 2
    /\ stats.called
    /\ stats.total_requests >= 1

\* ------------------------------------------------------------------------
\* Further properties of SimpleCache (checked under SpecCache)
\* ------------------------------------------------------------------------
\* C15: get of a present fingerprint returns the value its latest completed
\* set stored, leaves the mapping unchanged and moves the fingerprint to the
\* tail of access_order, keeping the order of all the others; get of an
\* absent fingerprint returns None and changes neither.
C15_GetFrame ==
    [][cache_last'.op = "get" =>
        LET key == cache_last'.key
            others == Range(access_order) \ {key}
        IN  IF key \in DOMAIN cache
            THEN /\ cache_last'.exc = "none"
                 /\ cache_last'.ret = RetVal(stored[key])
                 /\ cache' = cache
                 /\ Len(access_order') = Len(access_order)
                 /\ access_order'[Len(access_order')] = key
                 /\ Filter(access_order', others) = Filter(access_order, others)
            ELSE /\ cache_last'.exc = "none"
                 /\ cache_last'.ret = RetNone
                 /\ UNCHANGED <<cache, access_order>>]_cacheVars

\* a get has hit one of two entries, whose value a later set had replaced
C15_Witness ==
    /\ cache_last.op = "get"
    /\ cache_last.ret = RetVal(<<"c2">>)
    /\ Cardinality(DOMAIN cache) = 2
    /\ access_order[Len(access_order)] = cache_last.key
    /\ access_order[1] # cache_last.key

\* ------------------------------------------------------------------------
\* Construction of the clients (checked under SpecConstruct)
\* ------------------------------------------------------------------------
\* C12: construction with zero credentials fails, so no client with an empty
\* credential list ever runs the retry loop of generate_content, counting the
\* missing credential as attempt failures and sleeping between them.
C12_NoRetryLoopWithoutCredentials ==
    ~(/\ api_keys = <<>>
      /\ pc = "sleep"
      /\ error_count > entry.error_count)

\* ------------------------------------------------------------------------
\* Properties of _generate_key (checked under SpecKey)
\* ------------------------------------------------------------------------
\* s with its leading and trailing blanks removed, said without Strip
Blanks(n) == [i \in 1..n |-> " "]
Trimmed(s) ==
    CHOOSE t \in {SubSeq(s, i, j) : i \in 1..(Len(s) + 1), j \in 0..Len(s)} :
        /\ \E a, b \in 0..Len(s) : s = Blanks(a) \o t \o Blanks(b)
        /\ t = <<>> \/ (t[1] # " " /\ t[Len(t)] # " ")

\* two strings that differ at most in the case of their letters
CasePairs == {{"a", "A"}, {"b", "B"}, {"c", "C"}, {"m", "M"}}
SameButCase(s, t) ==
    /\ Len(s) = Len(t)
    /\ \A i \in 1..Len(s) : s[i] = t[i] \/ {s[i], t[i]} \in CasePairs

\* an optional field with None read as the empty string
Text(x) == IF x.none THEN <<>> ELSE x.s

\* two queries equal after lower-casing and trimming, None like ""
SameQuery(q1, q2) ==
    /\ SameButCase(Trimmed(q1.interests), Trimmed(q2.interests))
    /\ SameButCase(Trimmed(Text(q1.skills)), Trimmed(Text(q2.skills)))
    /\ SameButCase(Trimmed(Text(q1.goals)), Trimmed(Text(q2.goals)))

\* C16: two queries whose fields are equal after lower-casing and trimming,
\* None counting as the empty string, get the same fingerprint, so a get
\* under one finds what a set under the other stored.
C16_NormalizedQueriesShareEntry ==
    (fp.done /\ SameQuery(fp.q1, fp.q2)) =>
        /\ fp.k1 = fp.k2
        /\ fp.ret = RetVal(<<"c1">>)

\* set("A ", "m", None) then get("a", " M ", "") hits
C16_Witness ==
    /\ fp.done
    /\ fp.q1 = [interests |-> <<"A", " ">>, skills |-> Str(<<"m">>), goals |-> NoneStr]
    /\ fp.q2 = [interests |-> <<"a">>, skills |-> Str(<<" ", "M", " ">>),
                goals |-> Str(<<>>)]
    /\ fp.k1 = <<"a", "_", "m", "_">>
    /\ ~fp.ret.isNone

\* ------------------------------------------------------------------------
\* Properties of recommend_courses (checked under SpecRecommend)
\* ------------------------------------------------------------------------
\* a step in which recommend_courses is entered with the query rec'.q
RecommendEntered == rec.pc # "api" /\ rec'.pc # "idle" /\ <<rec, cache_last>>' # <<rec, cache_last>>

\* what a call finds and leaves in the cache, step by step
C18_Step ==
    LET key == QueryKey(rec'.q)
        cached == key \in DOMAIN cache /\ cache[key] # <<>>
    IN  /\ RecommendEntered =>
            /\ rec'.hit <=> cached
            /\ rec'.hit =>
                /\ rec'.pc = "done"
                /\ rec'.ret = cache[key]
                /\ UNCHANGED clientVars
            /\ ~rec'.hit =>
                /\ rec'.pc = "api"
                /\ request_count' = request_count + 1
                /\ attempts' = <<>>
        /\ (RecommendEntered /\ rec.pc = "done" /\ rec.ret # <<>>
                /\ SameQuery(rec.q, rec'.q)) =>
            /\ rec'.hit
            /\ rec'.ret = rec.ret
        /\ rec.pc = "api" => UNCHANGED request_count
        /\ (rec.pc = "api" /\ rec'.pc = "done" /\ rec'.ret # <<>>) =>
            /\ key \in DOMAIN cache'
            /\ cache'[key] = rec'.ret

\* C18: recommend_courses looks in the cache first. With a non-empty cached
\* result for the query it returns that result and leaves the client alone
\* (request_count, error_count, current_key_index unchanged); otherwise it calls
\* generate_content exactly once, and a non-empty validated result is stored
\* under the query's fingerprint, so that the next call with an equivalent
\* query is a hit.
C18_CacheFirst == [][C18_Step]_vars

\* a hit on "A " right after the one API call, for "a", that needed a retry
C18_Witness ==
    /\ rec.pc = "done"
    /\ rec.hit
    /\ rec.q.interests = <<"A", " ">>
    /\ rec.ret = <<MarkSource(Course1)>>
    /\ cache_last.op = "get"
    /\ DOMAIN cache = {<<"a", "_", "_">>}
    /\ request_count = 1
    /\ error_count = 1

\* ------------------------------------------------------------------------
\* SimpleCache.clear (checked under SpecCache)
\* ------------------------------------------------------------------------
\* C21: clear leaves the mapping and access_order empty from every reachable
\* state, also one in which access_order holds a fingerprint twice, raises
\* nothing and leaves max_size alone; a get right after it returns None.
C21_ClearStep ==
    /\ cache_last'.op = "clear" =>
        /\ cache' = EmptyDict
        /\ access_order' = <<>>
        /\ cache_last'.exc = "none"
        /\ max_size' = max_size
    /\ (cache_last.op = "clear" /\ cache_last'.op = "get") =>
        /\ cache_last'.ret = RetNone
        /\ cache_last'.exc = "none"
        /\ cache' = EmptyDict
        /\ access_order' = <<>>

C21_ClearEmpties == [][C21_ClearStep]_vars

\* the state a clear leaves
C21_Witness ==
    /\ cache_last.op = "clear"
    /\ cache = EmptyDict
    /\ access_order = <<>>
    /\ max_size = MaxSize

\* ------------------------------------------------------------------------
\* Rotation under two threads (checked under SpecThreads)
\* ------------------------------------------------------------------------
\* both threads have returned, and each read current_key_index for its
\* write-back before the other wrote it
BothReadBeforeWrite ==
    /\ \A t \in Threads : threads[t].pc = "done"
    /\ threads["t1"].idx = threads["t2"].idx

\* C22: when the two calls interleave the read of current_key_index and its
\* write-back, both return the same credential and the index ends one
\* position, not two, after the one they read: an update is lost.
C22_InterleavedCallsLoseUpdate ==
    BothReadBeforeWrite =>
        /\ threads["t1"].key = threads["t2"].key
        /\ threads["t1"].key = api_keys[threads["t1"].idx + 1]
        /\ current_key_index = (threads["t1"].idx + 1) % Len(api_keys)
        /\ key_log[Len(key_log)] = key_log[Len(key_log) - 1]

\* two different credentials, one solo call, then both threads return keyB
\* and the index is back at 0: keyA, keyB, keyB is no round robin
C22_Witness ==
    /\ BothReadBeforeWrite
    /\ api_keys = <<"keyA", "keyB">>
    /\ key_log = <<"keyA", "keyB", "keyB">>
    /\ current_key_index = 0
    /\ ~C9_RoundRobin

\* ------------------------------------------------------------------------
\* Further properties of the API clients (checked under SpecClient)
\* ------------------------------------------------------------------------
\* C23: the success_rate get_stats reports lies between 0 and 100 inclusive
\* (0 and 10000 hundredths of a percent), whatever calls were made before.
C23_SuccessRateInRange ==
    stats.called => (stats.success_rate >= 0 /\ stats.success_rate <= 10000)

\* ------------------------------------------------------------------------
\* Further properties of _generate_key (checked under SpecKey)
\* ------------------------------------------------------------------------
\* C24: two queries that differ in some field after lower-casing and trimming
\* get different fingerprints, so a get under one never returns what a set
\* under the other stored.
C24_FingerprintInjective ==
    (fp.done /\ ~SameQuery(fp.q1, fp.q2)) =>
        /\ fp.k1 # fp.k2
        /\ fp.ret = RetNone

\* ------------------------------------------------------------------------
\* Further properties of recommend_courses (checked under SpecRecommend)
\* ------------------------------------------------------------------------
\* the response texts without a JSON object, with one that does not parse,
\* and with one in which no course has title, platform and url
NoObjectResponses == {"rPlain", "rClosed"}
UnparsableResponses == {"rBroken"}
NoValidCourseResponses == {"rInvalid", "rNoKey"}

\* generate_content raised, or returned one of those texts
CallFailed ==
    \/ outcome.kind = "raise"
    \/ /\ outcome.kind = "return"
       /\ outcome.val \in NoObjectResponses \cup UnparsableResponses
                              \cup NoValidCourseResponses

\* the mapping and access_order across every step of a call that misses the
\* cache: its cache.get, the attempts of generate_content, and its end when
\* the call failed
C25_Step ==
    /\ (rec.pc # "api" /\ rec'.pc = "api") => UNCHANGED <<cache, access_order>>
    /\ (rec.pc = "api" /\ rec'.pc = "api") => UNCHANGED <<cache, access_order>>
    /\ (rec.pc = "api" /\ rec'.pc = "done" /\ CallFailed) =>
        /\ rec'.ret = <<>>
        /\ UNCHANGED <<cache, access_order>>
    /\ rec'.pc = "done" => rec'.exc = "none"

\* C25: recommend_courses raises nothing, and when generate_content exhausts
\* its retries, or the response has no JSON object, or it does not parse, or
\* no course passes validation, it returns [] and leaves the mapping and
\* access_order as they were before the call.
C25_FailureNotCached == [][C25_Step]_vars

\* a call for "b" whose two attempts failed, with "a" cached before and after
C25_Witness ==
    /\ rec.pc = "done"
    /\ ~rec.hit
    /\ rec.ret = <<>>
    /\ rec.q.interests = <<"b">>
    /\ outcome.kind = "raise"
    /\ Len(attempts) = 2
    /\ DOMAIN cache = {<<"a", "_", "_">>}
    /\ access_order = <<<<"a", "_", "_">>>>

\* ------------------------------------------------------------------------
\* Rotation across generate_content calls (checked under SpecCalls)
\* ------------------------------------------------------------------------
\* the position after position i of the pool
Following(i) == (i + 1) % Len(api_keys)

\* the steps of generate_content: its entry, and an attempt
CallEntered == pc = "idle" /\ pc' = "try"
AttemptMade == Len(attempts') = Len(attempts) + 1

C26_Step ==
    /\ (pc # "idle" \/ pc' # "idle") =>
        current_key_index' = (entry'.current_key_index + Len(attempts')) % Len(api_keys)
    /\ (CallEntered /\ attempts # <<>>) =>
        /\ current_key_index = Following(attempts[Len(attempts)].index)
        /\ entry'.current_key_index = current_key_index
        /\ current_key_index' = current_key_index
    /\ (AttemptMade /\ attempts = <<>>) =>
        /\ attempts'[1].index = entry.current_key_index
        /\ attempts'[1].key = api_keys[entry.current_key_index + 1]

\* C26: a generate_content call that makes k attempts advances
\* current_key_index by k modulo the pool size, and the first attempt of the
\* next call uses the credential after the last one the previous call used,
\* not the first of the pool.
C26_RotationPersists == [][C26_Step]_vars

\* after a first call of three failed attempts on keyA, keyB, keyA, the second
\* call starts with keyB
C26_Witness ==
    /\ cls = Gemini
    /\ api_keys = <<"keyA", "keyB">>
    /\ request_count = 2
    /\ key_log = <<"keyA", "keyB", "keyA", "keyB">>
    /\ Len(attempts) = 1
    /\ attempts[1].index = 1
    /\ attempts[1].key = "keyB"

\* ------------------------------------------------------------------------
\* The two client classes side by side (checked under SpecDuo)
\* ------------------------------------------------------------------------
\* both clients have finished the call they were given
BothReturned == pc = "idle" /\ duo.pro.pc = "idle" /\ duo.pattern # <<>>

\* the credentials a list of attempts used, in order
KeysUsed(atts) == [i \in 1..Len(atts) |-> atts[i].key]

\* C27: with the same credentials, max_retries = 3 and the same pattern of
\* transport results, GeminiAPIClient.generate_content and
\* ProfessionalAIClient.generate_content use the same credentials in the same
\* order, make as many attempts and pauses, leave the same current_key_index
\* and end the same way: the same text returned, or the same failure raised.
C27_ClientsEquivalent ==
    BothReturned =>
        /\ KeysUsed(attempts) = KeysUsed(duo.pro.attempts)
        /\ Len(attempts) = Len(duo.pro.attempts)
        /\ pauses = duo.pro.pauses
        /\ current_key_index = duo.pro.current_key_index
        /\ outcome.kind = duo.pro.outcome.kind
        /\ outcome.val = duo.pro.outcome.val
        /\ outcome.kind \in {"return", "raise"}

\* both clients gave up after failures e1, e2, e1 on keyA, keyB, keyA
C27_Witness ==
    /\ BothReturned
    /\ api_keys = <<"keyA", "keyB">>
    /\ KeysUsed(duo.pro.attempts) = <<"keyA", "keyB", "keyA">>
    /\ duo.pro.pauses = 2
    /\ duo.pro.outcome.kind = "raise"
    /\ outcome.val = "e1"
    /\ attempts[2].val = "e2"
    /\ current_key_index = 1

\* the courses of the response texts that hold a list of courses
ResponseCourses ==
    [rOne     |-> <<Course1>>,
     rMixed   |-> <<Course2, Course3>>,
     rThree   |-> <<Course1, Course2, Course3>>,
     rInvalid |-> <<Course2>>]

\* a course dict with title, platform and url
Complete(c) == {"title", "platform", "url"} \subseteq DOMAIN c

\* r is course c with 'source' set to 'AI Generated' and nothing else changed
Marked(r, c) ==
    /\ DOMAIN r = (DOMAIN c) \cup {"source"}
    /\ r.source = "AI Generated"
    /\ \A k \in (DOMAIN c) \ {"source"} : r[k] = c[k]

C28_Step ==
    /\ rec'.pc = "done" =>
        \A i \in 1..Len(rec'.ret) :
            Complete(rec'.ret[i]) /\ rec'.ret[i].source = "AI Generated"
    /\ (rec.pc = "api" /\ rec'.pc = "done" /\ outcome.kind = "return"
            /\ outcome.val \in DOMAIN ResponseCourses) =>
        LET kept == SelectSeq(ResponseCourses[outcome.val], Complete)
        IN  /\ Len(rec'.ret) = Len(kept)
            /\ \A i \in 1..Len(kept) : Marked(rec'.ret[i], kept[i])

\* C28: every course recommend_courses returns, freshly generated or from
\* the cache, has title, platform and url and has source 'AI Generated';
\* the courses of the response lacking one of the three keys are dropped and
\* the others keep their order.
C28_ReturnedCoursesValid == [][C28_Step]_vars

\* T1, T3 served from the cache, from a response with T1, T2 (no url), T3
C28_Witness ==
    /\ rec.pc = "done"
    /\ rec.hit
    /\ outcome.val = "rThree"
    /\ Len(rec.ret) = 2
    /\ rec.ret[1].title = "T1"
    /\ rec.ret[2].title = "T3"
    /\ rec.ret[2].source = "AI Generated"

\* ------------------------------------------------------------------------
\* ProfessionalAIClient.generate_roadmap and .recommend_courses (checked
\* under SpecPro)
\* ------------------------------------------------------------------------
\* generate_content gave up, or returned a text without a JSON object or
\* with one that does not parse
ProCallFailed ==
    \/ outcome.kind = "raise"
    \/ /\ outcome.kind = "return"
       /\ outcome.val \in NoObjectResponses \cup UnparsableResponses

\* C29: generate_roadmap raises nothing and returns a roadmap: the object of
\* the response, or, when generate_content exhausts its retries or the
\* response has no JSON object or does not parse, the fallback roadmap for
\* the requested subject with 8 steps numbered 1..8 in order; in those cases
\* recommend_courses of ProfessionalAIClient returns [].
C29_FallbackOnFailure ==
    procall.pc = "done" =>
        /\ procall.exc = "none"
        /\ (procall.op = "generate_roadmap" /\ ProCallFailed) =>
            /\ procall.ret.subject = procall.subject
            /\ Len(procall.ret.learning_path) = 8
            /\ \A i \in 1..8 : procall.ret.learning_path[i].step = i
        /\ (procall.op = "generate_roadmap" /\ ~ProCallFailed) =>
            procall.ret \in {Documents[d] : d \in DOMAIN Documents}
        /\ (procall.op = "recommend_courses" /\ ProCallFailed) =>
            procall.ret = <<>>

\* generate_roadmap("s2") after three failed attempts
C29_Witness ==
    /\ procall.pc = "done"
    /\ procall.op = "generate_roadmap"
    /\ procall.subject = "s2"
    /\ outcome.kind = "raise"
    /\ Len(attempts) = 3
    /\ procall.ret.subject = "s2"
    /\ procall.ret.learning_path[8].step = 8

\* ------------------------------------------------------------------------
\* CourseDataStore on JSON files (checked under SpecStore)
\* ------------------------------------------------------------------------
\* the ids the save_course calls returned, in call order
RECURSIVE IdsReturned(_)
IdsReturned(calls) ==
    IF calls = <<>> THEN <<>>
    ELSE IF Head(calls).exc = "none"
    THEN <<Head(calls).id>> \o IdsReturned(Tail(calls))
    ELSE IdsReturned(Tail(calls))

\* C30: after any sequence of save_course calls on an empty store the ids
\* returned are 1, 2, ..., n in call order, the stored courses have pairwise
\* different ids, and get_courses() without limit and level returns all n
\* courses in the order they were saved.
C30_IdsCountUp ==
    LET ids == IdsReturned(store.calls)
        data == LoadJsonFile(store.file)
        all == GetCoursesJson(store.file, NoneInt, NoneStr)
    IN  /\ \A i \in 1..Len(ids) : ids[i] = i
        /\ \A i, j \in 1..Len(data) : i # j => data[i].id # data[j].id
        /\ Len(all) = Len(ids)
        /\ \A i \in 1..Len(all) :
              /\ all[i].id = i
              /\ all[i].title = store.kept[i].title

====
